---- MODULE Spec2Model ----
(***************************************************************************)
(* Model of the 15-minute time tracker (src/app.py, src/init_db.py): the   *)
(* time_log table, schema initialization, the GET / handler (index) and    *)
(* the POST /save_entry handler (save_entry).                              *)
(*                                                                         *)
(* A string that the program parses (a date, a time of day) is a sequence  *)
(* of one-character strings, so that parsing and formatting are computed.  *)
(* The four free-text fields are never parsed and are plain strings.       *)
(***************************************************************************)
EXTENDS Integers, Sequences, FiniteSets

VARIABLES
    tableExists,  \* whether CREATE TABLE time_log has committed
    table,        \* the committed rows of time_log
    today,        \* date.today() of the server, <<year, month, day>>
    initPc,       \* the process: "start", "initialized", then "serving"
    initConn,     \* conn of initialize_database when it returned
    resp,         \* the response of the last request served one at a time
    conn,         \* the connection of that request when its handler ended
    wpc,          \* overlapping save_entry requests: each worker's position
    wform,        \* ... its request.form
    wconn,        \* ... its connection
    wresp,        \* ... its response
    commitSeq     \* history: the commits of the workers' upserts, in order

vars == <<tableExists, table, today, initPc, initConn, resp, conn,
          wpc, wform, wconn, wresp, commitSeq>>

seqVars == <<resp, conn>>
concVars == <<wpc, wform, wconn, wresp, commitSeq>>

(***************************************************************************)
(* Bound of the model: the save_entry requests that may overlap.           *)
(***************************************************************************)
NumWorkers == 2

(***************************************************************************)
(* Characters, numbers and calendar dates.                                 *)
(***************************************************************************)
Digits == {"0", "1", "2", "3", "4", "5", "6", "7", "8", "9"}

DigitVal(c) ==
    CASE c = "0" -> 0 [] c = "1" -> 1 [] c = "2" -> 2 [] c = "3" -> 3
      [] c = "4" -> 4 [] c = "5" -> 5 [] c = "6" -> 6 [] c = "7" -> 7
      [] c = "8" -> 8 [] c = "9" -> 9

DigitChar(n) ==
    CASE n = 0 -> "0" [] n = 1 -> "1" [] n = 2 -> "2" [] n = 3 -> "3"
      [] n = 4 -> "4" [] n = 5 -> "5" [] n = 6 -> "6" [] n = 7 -> "7"
      [] n = 8 -> "8" [] n = 9 -> "9"

IsDigits(f) == Len(f) >= 1 /\ \A i \in 1..Len(f) : f[i] \in Digits

RECURSIVE Num(_)
Num(f) ==
    IF f = <<>> THEN 0
    ELSE Num(SubSeq(f, 1, Len(f) - 1)) * 10 + DigitVal(f[Len(f)])

\* The fields of s between occurrences of the separator sep.
RECURSIVE Split(_, _)
Split(s, sep) ==
    IF \A i \in 1..Len(s) : s[i] # sep THEN <<s>>
    ELSE LET k == CHOOSE i \in 1..Len(s) :
                      s[i] = sep /\ \A j \in 1..(i - 1) : s[j] # sep
         IN <<SubSeq(s, 1, k - 1)>> \o Split(SubSeq(s, k + 1, Len(s)), sep)

\* f"{n:02d}" and the four-digit year of isoformat().
Fmt2(n) == <<DigitChar((n \div 10) % 10), DigitChar(n % 10)>>

Fmt4(n) == Fmt2(n \div 100) \o Fmt2(n % 100)

IsLeap(y) == (y % 4 = 0 /\ y % 100 # 0) \/ y % 400 = 0

DaysInMonth(y, m) ==
    IF m = 2 THEN (IF IsLeap(y) THEN 29 ELSE 28)
    ELSE IF m \in {4, 6, 9, 11} THEN 30 ELSE 31

IsDate(y, m, d) ==
    /\ y \in 1..9999
    /\ m \in 1..12
    /\ d \in 1..DaysInMonth(y, m)

\* What a parser returns for a string it rejects.
Invalid == <<>>

\* datetime.date.fromisoformat: exactly YYYY-MM-DD.
FromIsoformat(s) ==
    IF /\ Len(s) = 10
       /\ s[5] = "-"
       /\ s[8] = "-"
       /\ \A i \in {1, 2, 3, 4, 6, 7, 9, 10} : s[i] \in Digits
       /\ IsDate(Num(SubSeq(s, 1, 4)), Num(SubSeq(s, 6, 7)), Num(SubSeq(s, 9, 10)))
    THEN <<Num(SubSeq(s, 1, 4)), Num(SubSeq(s, 6, 7)), Num(SubSeq(s, 9, 10))>>
    ELSE Invalid

\* datetime.date.isoformat.
Isoformat(d) == Fmt4(d[1]) \o <<"-">> \o Fmt2(d[2]) \o <<"-">> \o Fmt2(d[3])

\* date + timedelta(days=1) and date - timedelta(days=1).
NextDay(d) ==
    IF d[3] < DaysInMonth(d[1], d[2]) THEN <<d[1], d[2], d[3] + 1>>
    ELSE IF d[2] < 12 THEN <<d[1], d[2] + 1, 1>>
    ELSE <<d[1] + 1, 1, 1>>

PrevDay(d) ==
    IF d[3] > 1 THEN <<d[1], d[2], d[3] - 1>>
    ELSE IF d[2] > 1 THEN <<d[1], d[2] - 1, DaysInMonth(d[1], d[2] - 1)>>
    ELSE <<d[1] - 1, 12, 31>>

(***************************************************************************)
(* The store's input conversion of the entry_date DATE and time_slot TIME  *)
(* columns, for the year-month-day and hour:minute[:second] spellings: the *)
(* store accepts fields that are not zero-padded, and seconds.             *)
(***************************************************************************)
PgParseDate(s) ==
    LET f == Split(s, "-") IN
    IF /\ Len(f) = 3
       /\ \A i \in 1..3 : IsDigits(f[i])
       /\ Len(f[1]) = 4
       /\ Len(f[2]) <= 2
       /\ Len(f[3]) <= 2
       /\ IsDate(Num(f[1]), Num(f[2]), Num(f[3]))
    THEN <<Num(f[1]), Num(f[2]), Num(f[3])>>
    ELSE Invalid

PgParseTime(s) ==
    LET f == Split(s, ":") IN
    IF /\ Len(f) \in {2, 3}
       /\ \A i \in 1..Len(f) : IsDigits(f[i]) /\ Len(f[i]) <= 2
       /\ Num(f[1]) <= 23
       /\ Num(f[2]) <= 59
       /\ (Len(f) = 3 => Num(f[3]) <= 59)
    THEN <<Num(f[1]), Num(f[2]), IF Len(f) = 3 THEN Num(f[3]) ELSE 0>>
    ELSE Invalid

\* row[0].strftime('%H:%M') of a stored time <<hour, minute, second>>.
Strftime(t) == Fmt2(t[1]) \o <<":">> \o Fmt2(t[2])

(***************************************************************************)
(* The 96 slot labels of the day view.                                     *)
(***************************************************************************)
SlotsPerHour == 4

MinutesPerSlot == 15

HoursPerDay == 24

TimeSlots ==
    [i \in 1..(HoursPerDay * SlotsPerHour) |->
        Fmt2((i - 1) \div SlotsPerHour)
            \o <<":">> \o Fmt2(((i - 1) % SlotsPerHour) * MinutesPerSlot)]

(***************************************************************************)
(* The time_log table.  A row is                                           *)
(*   [entry_date, time_slot, activity, category, priority, notes];         *)
(* the surrogate key id is never read by the program and is left out.      *)
(***************************************************************************)
RowKey(r) == <<r.entry_date, r.time_slot>>

EntryOf(r) ==
    [activity |-> r.activity, category |-> r.category,
     priority |-> r.priority, notes |-> r.notes]

MakeRow(d, t, f) ==
    [entry_date |-> d, time_slot |-> t, activity |-> f.activity,
     category |-> f.category, priority |-> f.priority, notes |-> f.notes]

\* The rows the UNIQUE (entry_date, time_slot) constraint sets against row.
Conflicting(t, row) == {r \in t : RowKey(r) = RowKey(row)}

\* Mutant of DoUpdate: a submitted empty string keeps the stored value (a
\* merging update).
DoUpdateKeepNonEmpty(old, row) ==
    [old EXCEPT
        !.activity = IF row.activity = "" THEN @ ELSE row.activity,
        !.category = IF row.category = "" THEN @ ELSE row.category,
        !.priority = IF row.priority = "" THEN @ ELSE row.priority,
        !.notes = IF row.notes = "" THEN @ ELSE row.notes]

\* Mutant of DoUpdate: the SET list leaves out priority and notes.
DoUpdateTwoFields(old, row) ==
    [old EXCEPT !.activity = row.activity, !.category = row.category]

\* DO UPDATE SET activity = EXCLUDED.activity, ... : the four fields of the
\* existing row are replaced, its key stays.
DoUpdate(old, row) ==
    [old EXCEPT !.activity = row.activity, !.category = row.category,
                !.priority = row.priority, !.notes = row.notes]

\* Mutant of Upsert: a plain INSERT into a table without the constraint.
UpsertInsertOnly(t, row) == t \cup {row}

\* INSERT ... ON CONFLICT (entry_date, time_slot) DO UPDATE.
Upsert(t, row) ==
    IF Conflicting(t, row) = {} THEN t \cup {row}
    ELSE (t \ Conflicting(t, row))
             \cup {DoUpdate(old, row) : old \in Conflicting(t, row)}

\* Mutant of SelectEntries: the WHERE clause is missing.
SelectAllEntries(t, d) == t

\* SELECT ... FROM time_log WHERE entry_date = %s.
SelectEntries(t, d) == {r \in t : r.entry_date = d}

\* The dict comprehension over fetchall(): one key per HH:MM label.  The
\* query has no ORDER BY, so when two rows of the date share a label (they
\* differ in seconds) either may come last and own the key.
RECURSIVE MapsOver(_, _)
MapsOver(rows, labels) ==
    IF labels = {} THEN {<<>>}
    ELSE LET l == CHOOSE x \in labels : TRUE IN
         {[x \in labels |-> IF x = l THEN EntryOf(r) ELSE m[x]] :
             r \in {q \in rows : Strftime(q.time_slot) = l},
             m \in MapsOver(rows, labels \ {l})}

EntriesMaps(t, d) ==
    MapsOver(SelectEntries(t, d),
             {Strftime(r.time_slot) : r \in SelectEntries(t, d)})

\* COUNT(*) * 0.25, in hundredths of an hour.
HundredthsPerRow == 25

\* Mutant of DashboardRows: the category != '' filter is missing.
DashboardRowsKeepEmpty(t) ==
    {<<c, Cardinality({r \in t : r.category = c}) * HundredthsPerRow>> :
        c \in {r.category : r \in t}}

\* SELECT category, COUNT(*) * 0.25 ... WHERE category IS NOT NULL AND
\* category != '' GROUP BY category.  request.form values are always
\* strings, so no row written by save_entry holds a NULL.
DashboardRows(t) ==
    {<<c, Cardinality({r \in t : r.category = c}) * HundredthsPerRow>> :
        c \in {r.category : r \in t} \ {""}}

\* ORDER BY total_hours DESC: any order of the groups with totals
\* non-increasing (the order among equal totals is the store's choice).
IsDescending(s) == \A i, j \in 1..Len(s) : i < j => s[i][2] >= s[j][2]

DashboardResults(t) ==
    LET g == DashboardRows(t) IN
    {s \in [1..Cardinality(g) -> g] :
        /\ \A i, j \in 1..Cardinality(g) : i # j => s[i] # s[j]
        /\ IsDescending(s)}

\* entries.get(slot) of the template.
NoEntry == [none |-> TRUE]

EntriesGet(m, slot) == IF slot \in DOMAIN m THEN m[slot] ELSE NoEntry

(***************************************************************************)
(* The requests the model submits.                                         *)
(***************************************************************************)
Str_2024_02_29 == <<"2", "0", "2", "4", "-", "0", "2", "-", "2", "9">>

Str_2024_03_01 == <<"2", "0", "2", "4", "-", "0", "3", "-", "0", "1">>

Str_2024_3_1 == <<"2", "0", "2", "4", "-", "3", "-", "1">>

Str_2024_02_30 == <<"2", "0", "2", "4", "-", "0", "2", "-", "3", "0">>

Str_09_00 == <<"0", "9", ":", "0", "0">>

Str_09_00_30 == <<"0", "9", ":", "0", "0", ":", "3", "0">>

Str_25_00 == <<"2", "5", ":", "0", "0">>

DateStrings == {Str_2024_02_29, Str_2024_03_01, Str_2024_3_1, Str_2024_02_30}

TimeStrings == {Str_09_00, Str_09_00_30, Str_25_00}

Report ==
    [activity |-> "Write report", category |-> "Deep Work",
     priority |-> "Finish draft", notes |-> "focused"]

Email ==
    [activity |-> "Email", category |-> "Admin",
     priority |-> "Inbox zero", notes |-> "distracted"]

Cleared == [activity |-> "", category |-> "", priority |-> "", notes |-> ""]

FieldValues == {Report, Email, Cleared}

Forms ==
    [entry_date : DateStrings, time_slot : TimeStrings, fields : FieldValues]

\* The date query parameter; the empty string stands for a missing one too:
\* both end as date.today().
DateArgs == DateStrings \cup {<<>>}

FirstDay == <<2024, 2, 29>>

LastDay == <<2024, 3, 1>>

(***************************************************************************)
(* Initial state: the process has not yet initialized the schema.          *)
(***************************************************************************)
Idle == [kind |-> "none"]

Init ==
    /\ tableExists = FALSE
    /\ table = {}
    /\ today = FirstDay
    /\ initPc = "start"
    /\ initConn = "none"
    /\ resp = Idle
    /\ conn = "none"
    /\ wpc = [w \in 1..NumWorkers |-> "idle"]
    /\ wform = [w \in 1..NumWorkers |-> Idle]
    /\ wconn = [w \in 1..NumWorkers |-> "none"]
    /\ wresp = [w \in 1..NumWorkers |-> Idle]
    /\ commitSeq = <<>>

(***************************************************************************)
(* Schema initialization.  fault names the store call that fails, if any.  *)
(***************************************************************************)
InitFaults == {"none", "connect", "create"}

\* init_db.py initialize_database, the standalone script run to bootstrap
\* the store: conn stays None when connect raises, every error is caught,
\* and finally closes an opened connection.
InitDbScript(fault) ==
    /\ initPc = "start"
    /\ initConn' = IF fault = "connect" THEN "none" ELSE "closed"
    /\ tableExists' = (tableExists \/ fault = "none")
    /\ UNCHANGED <<table, today, initPc, seqVars, concVars>>

\* app.py initialize_database, called at import (line 269):
\* get_db_connection returns None on a failed connect; an error of CREATE
\* TABLE or of the commit is caught, and finally closes.
InitializeDatabase(fault) ==
    /\ initPc = "start"
    /\ initPc' = "initialized"
    /\ initConn' = IF fault = "connect" THEN "none" ELSE "closed"
    /\ tableExists' = (tableExists \/ fault = "none")
    /\ UNCHANGED <<table, today, seqVars, concVars>>

\* app.run: requests are served from here on; the local conn of
\* initialize_database is gone.
AppRun ==
    /\ initPc = "initialized"
    /\ initPc' = "serving"
    /\ initConn' = "none"
    /\ UNCHANGED <<tableExists, table, today, seqVars, concVars>>

\* The server's clock passes midnight.
Midnight ==
    /\ today # LastDay
    /\ today' = NextDay(today)
    /\ UNCHANGED <<tableExists, table, initPc, initConn, seqVars, concVars>>

(***************************************************************************)
(* Responses.                                                              *)
(***************************************************************************)
\* The handler's own "<h1>Database Connection Error</h1>", 500.
ErrorPage == [kind |-> "error_page", status |-> 500]

\* An exception left the handler: the framework answers, not the handler.
Unhandled == [kind |-> "unhandled", status |-> 500]

\* redirect(url_for('index', date=entry_date)).  form and replaced are
\* history: the form that was saved and the rows its upsert overwrote.
Redirect(form, replaced) ==
    [kind |-> "redirect", status |-> 302, location |-> form.entry_date,
     form |-> form, replaced |-> replaced]

\* What render_template_string is given, but for time_slots, which is
\* TimeSlots in every page.
Page(d, m, dash) ==
    [kind |-> "page", status |-> 200, current_date |-> d,
     date_str |-> Isoformat(d), entries |-> m, dashboard_data |-> dash,
     prev_day |-> Isoformat(PrevDay(d)), next_day |-> Isoformat(NextDay(d)),
     today_day |-> Isoformat(today)]

\* Lines 71-75 of index: the date to show.
\* fromisoformat of every date argument the model submits, computed once.
ParsedArgs == {<<arg, FromIsoformat(arg)>> : arg \in DateArgs}

ParsedArg(arg) == (CHOOSE p \in ParsedArgs : p[1] = arg)[2]

CurrentDate(date_str) ==
    IF ParsedArg(date_str) # Invalid THEN ParsedArg(date_str) ELSE today

\* The pages index can answer with for a date argument, from table t.
IndexPages(t, arg) ==
    {Page(CurrentDate(arg), m, dash) :
        m \in EntriesMaps(t, CurrentDate(arg)), dash \in DashboardResults(t)}

\* The row save_entry's INSERT holds for a form, or Invalid when the store
\* rejects the date or the time.
InsertedRow(form) ==
    IF PgParseDate(form.entry_date) = Invalid
       \/ PgParseTime(form.time_slot) = Invalid
    THEN Invalid
    ELSE MakeRow(PgParseDate(form.entry_date), PgParseTime(form.time_slot),
                 form.fields)

\* InsertedRow of every form the model submits, computed once.
FormRows == {<<form, InsertedRow(form)>> : form \in Forms}

FormRow(form) == (CHOOSE p \in FormRows : p[1] = form)[2]

(***************************************************************************)
(* Requests served one at a time: each action is a whole handler.          *)
(***************************************************************************)
SaveFaults == {"none", "connect", "execute", "commit"}

IndexFaults == {"none", "connect", "select_entries", "select_dashboard"}

\* POST /save_entry.
SaveEntry(form, fault) ==
    /\ initPc = "serving"
    /\ IF fault = "connect"
       THEN /\ resp' = ErrorPage
            /\ conn' = "none"
            /\ table' = table
       ELSE IF ~tableExists \/ FormRow(form) = Invalid
               \/ fault \in {"execute", "commit"}
       THEN \* cur.execute or conn.commit raises: lines 152-153 are skipped
            /\ resp' = Unhandled
            /\ conn' = "open"
            /\ table' = table
       ELSE /\ table' = Upsert(table, FormRow(form))
            /\ resp' = Redirect(form, Conflicting(table, FormRow(form)))
            /\ conn' = "closed"
    /\ UNCHANGED <<tableExists, today, initPc, initConn, concVars>>

\* GET /.
Index(arg, fault) ==
    /\ initPc = "serving"
    /\ IF fault = "connect"
       THEN /\ resp' = ErrorPage
            /\ conn' = "none"
       ELSE IF ~tableExists \/ fault \in {"select_entries", "select_dashboard"}
       THEN \* cur.execute raises: lines 98-99 are skipped
            /\ resp' = Unhandled
            /\ conn' = "open"
       ELSE /\ resp' \in IndexPages(table, arg)
            /\ conn' = "closed"
    /\ UNCHANGED <<tableExists, table, today, initPc, initConn, concVars>>

\* A request whose store call fails ends the same whatever it carries, so
\* a fault is tried with one form (one date argument) only.
FormsUnder(fault) ==
    IF fault = "none" THEN Forms ELSE {CHOOSE form \in Forms : TRUE}

ArgsUnder(fault) == IF fault = "none" THEN DateArgs ELSE {<<>>}

(***************************************************************************)
(* Overlapping POST /save_entry requests (the server handles each request  *)
(* in a thread of its own): one action per store call of the handler.      *)
(***************************************************************************)
Workers == 1..NumWorkers

\* The forms of the overlapping requests: two valid spellings of one date,
\* two times of day and an impossible one, every tuple of field values.
ConcForms ==
    [entry_date : {Str_2024_03_01, Str_2024_3_1}, time_slot : TimeStrings,
     fields : FieldValues]

\* Lines 126-137: read the form, connect.
BeginSave(w, form, fault) ==
    /\ initPc = "serving"
    /\ wpc[w] = "idle"
    /\ wform' = [wform EXCEPT ![w] = form]
    /\ IF fault = "connect"
       THEN /\ wresp' = [wresp EXCEPT ![w] = ErrorPage]
            /\ wpc' = [wpc EXCEPT ![w] = "done"]
            /\ wconn' = wconn
       ELSE /\ wconn' = [wconn EXCEPT ![w] = "open"]
            /\ wpc' = [wpc EXCEPT ![w] = "connected"]
            /\ wresp' = wresp
    /\ UNCHANGED <<tableExists, table, today, initPc, initConn, seqVars,
                   commitSeq>>

\* Another transaction has upserted the key of w's row and not committed:
\* the store makes w's INSERT wait for it.
RowLocked(w) ==
    \E v \in Workers \ {w} :
        /\ wpc[v] = "executed"
        /\ RowKey(FormRow(wform[v])) = RowKey(FormRow(wform[w]))

\* Lines 140-149: cur.execute of the upsert, inside w's transaction.
ExecuteUpsert(w, fault) ==
    /\ wpc[w] = "connected"
    /\ IF ~tableExists \/ FormRow(wform[w]) = Invalid \/ fault = "execute"
       THEN /\ wresp' = [wresp EXCEPT ![w] = Unhandled]
            /\ wpc' = [wpc EXCEPT ![w] = "done"]
       ELSE /\ ~RowLocked(w)
            /\ wpc' = [wpc EXCEPT ![w] = "executed"]
            /\ wresp' = wresp
    /\ UNCHANGED <<tableExists, table, today, initPc, initConn, seqVars,
                   wform, wconn, commitSeq>>

\* The requests that have connected and not yet ended, other than w's.
InFlight(w) == {v \in Workers \ {w} : wpc[v] \in {"connected", "executed"}}

\* Lines 151-155: conn.commit makes the upsert visible; then close and
\* redirect.  A failed commit leaves nothing written.  commitSeq records
\* who committed and which requests were in flight at that moment.
CommitSave(w, fault) ==
    /\ wpc[w] = "executed"
    /\ wpc' = [wpc EXCEPT ![w] = "done"]
    /\ IF fault = "commit"
       THEN /\ wresp' = [wresp EXCEPT ![w] = Unhandled]
            /\ UNCHANGED <<table, wconn, commitSeq>>
       ELSE /\ table' = Upsert(table, FormRow(wform[w]))
            /\ commitSeq' =
                  Append(commitSeq, [worker |-> w, racing |-> InFlight(w)])
            /\ wconn' = [wconn EXCEPT ![w] = "closed"]
            /\ wresp' = [wresp EXCEPT ![w] =
                   Redirect(wform[w], Conflicting(table, FormRow(wform[w])))]
    /\ UNCHANGED <<tableExists, today, initPc, initConn, seqVars, wform>>

Next ==
    \/ \E fault \in InitFaults : InitDbScript(fault)
    \/ \E fault \in InitFaults : InitializeDatabase(fault)
    \/ AppRun
    \/ Midnight
    \/ \E fault \in SaveFaults :
          \E form \in FormsUnder(fault) : SaveEntry(form, fault)
    \/ \E fault \in IndexFaults :
          \E arg \in ArgsUnder(fault) : Index(arg, fault)

Spec == Init /\ [][Next]_vars

NextConc ==
    \/ \E fault \in InitFaults : InitDbScript(fault)
    \/ \E fault \in InitFaults : InitializeDatabase(fault)
    \/ AppRun
    \/ \E w \in Workers, fault \in {"none", "connect"} :
          \E form \in IF fault = "none" THEN ConcForms
                      ELSE {CHOOSE form \in ConcForms : TRUE} :
             BeginSave(w, form, fault)
    \/ \E w \in Workers, fault \in {"none", "execute"} : ExecuteUpsert(w, fault)
    \/ \E w \in Workers, fault \in {"none", "commit"} : CommitSave(w, fault)

SpecConc == Init /\ [][NextConc]_vars

(***************************************************************************)
(* The claims.                                                             *)
(***************************************************************************)
\* The row the last successful save wrote.
SavedRow == FormRow(resp.form)

\* C1: in every reachable state the table holds at most one row per
\* (entry_date, time_slot) pair: a save for an existing pair overwrites it.
C1_OneRowPerDateSlot ==
    \A r1, r2 \in table : RowKey(r1) = RowKey(r2) => r1 = r2

\* C1 witness: a save has just overwritten a row that held other values.
C1_Overwrote ==
    /\ resp.kind = "redirect"
    /\ \E old \in resp.replaced : EntryOf(old) # resp.form.fields
    /\ Cardinality(table) >= 2

\* C2: after a successful save for (D,S) there is exactly one row for (D,S)
\* and its four fields are the ones just submitted, whatever was stored for
\* (D,S) by an earlier save and also where the submitted value is empty.
C2_SecondSaveWins ==
    resp.kind = "redirect" => Conflicting(table, SavedRow) = {SavedRow}

\* C2 witness: a second save for a pair submitted four empty strings over a
\* row that held four non-empty values.
C2_ClearedOverReport ==
    /\ resp.kind = "redirect"
    /\ resp.form.fields = Cleared
    /\ \E old \in resp.replaced : EntryOf(old) = Report

\* A stored time that is one of the 96 slots of the day view.
IsCanonicalSlot(t) ==
    /\ t[3] = 0
    /\ \E i \in DOMAIN TimeSlots : TimeSlots[i] = Strftime(t)

\* C3 (as claimed, and only for S one of the 96 slots): right after a
\* successful save of (D,S,a,c,p,n) the entries mapping GET / builds for D
\* holds, under key S as HH:MM, exactly a, c, p, n.
C3_RoundTrip ==
    (resp.kind = "redirect" /\ IsCanonicalSlot(SavedRow.time_slot)) =>
        \A m \in EntriesMaps(table, SavedRow.entry_date) :
            EntriesGet(m, Strftime(SavedRow.time_slot)) = resp.form.fields

\* C4 (as claimed): following the redirect of a successful save, with no
\* request in between, renders the day view of the saved date, and one of
\* its 96 slots shows the saved entry.
C4_SavedEntryVisible ==
    resp.kind = "redirect" =>
        \A pg \in IndexPages(table, resp.location) :
            /\ pg.current_date = SavedRow.entry_date
            /\ \E i \in DOMAIN TimeSlots :
                  EntriesGet(pg.entries, TimeSlots[i]) = resp.form.fields

\* C5 (as claimed): no store failure leaves a route handler as an unhandled
\* exception; each becomes the handler's own error page.
C5_StoreErrorsCaught == resp.kind # "unhandled"

\* C6: the dashboard GET / computes has exactly one row for every category
\* other than the empty string among the stored rows of all dates, each
\* total is the number of rows of that category times 0.25 hours (in
\* hundredths: 25), and totals do not increase along the rows.
C6_Dashboard ==
    resp.kind = "page" =>
        LET d == resp.dashboard_data IN
        /\ {d[i][1] : i \in DOMAIN d} = {r.category : r \in table} \ {""}
        /\ \A i, j \in DOMAIN d : i # j => d[i][1] # d[j][1]
        /\ \A i \in DOMAIN d :
              d[i][2] = 25 * Cardinality({r \in table : r.category = d[i][1]})
        /\ \A i, j \in DOMAIN d : i < j => d[i][2] >= d[j][2]

\* C6 witness: a page whose dashboard has two rows with different totals,
\* while a row with an empty category is stored and the leading category
\* has a row on another date than the one viewed.
C6_TwoCategoriesShown ==
    /\ resp.kind = "page"
    /\ Len(resp.dashboard_data) = 2
    /\ resp.dashboard_data[1][2] > resp.dashboard_data[2][2]
    /\ \E r \in table : r.category = ""
    /\ \E r \in table :
          /\ r.category = resp.dashboard_data[1][1]
          /\ r.entry_date # resp.current_date

\* C7: every entry of the mapping GET /?date=D builds comes from a stored
\* row whose entry_date is D, and a save for another date leaves the
\* mappings that can be built for D as they were.
C7_OnlyEntriesOfDate ==
    /\ [](resp.kind = "page" =>
            \A l \in DOMAIN resp.entries :
                \E r \in table :
                    /\ r.entry_date = resp.current_date
                    /\ Strftime(r.time_slot) = l
                    /\ EntryOf(r) = resp.entries[l])
    /\ [][\A d \in {FirstDay, LastDay} :
            (resp'.kind = "redirect" /\ FormRow(resp'.form).entry_date # d)
                => EntriesMaps(table', d) = EntriesMaps(table, d)]_vars

\* C7 witness: a page that shows entries of its date while rows of another
\* date are stored.
C7_OtherDateStored ==
    /\ resp.kind = "page"
    /\ DOMAIN resp.entries # {}
    /\ \E r \in table : r.entry_date # resp.current_date

\* C8 (as claimed): the time_slot of every stored row is one of the 96
\* slots 00:00, 00:15, ..., 23:45 of the day view.
C8_CanonicalSlots == \A r \in table : IsCanonicalSlot(r.time_slot)

\* The workers whose upsert committed after position i of commitSeq.
LaterCommitters(i) == {commitSeq[j].worker : j \in (i + 1)..Len(commitSeq)}

\* C9: under every interleaving of overlapping saves, the pair a committed
\* save wrote has exactly one row, and as long as no later commit wrote the
\* same pair that row is the complete tuple of that save.
C9_LastCommitWins ==
    \A i \in DOMAIN commitSeq :
        LET row == FormRow(wform[commitSeq[i].worker]) IN
        (\A v \in LaterCommitters(i) : RowKey(FormRow(wform[v])) # RowKey(row))
            => Conflicting(table, row) = {row}

\* C9 witness: two saves of one pair, submitted with tuples that differ in
\* all four fields, have both committed; worker 2 committed first, while
\* worker 1 was in flight.
C9_BothCommitted ==
    /\ commitSeq = <<[worker |-> 2, racing |-> {1}],
                     [worker |-> 1, racing |-> {}]>>
    /\ RowKey(FormRow(wform[1])) = RowKey(FormRow(wform[2]))
    /\ wform[1].fields = Report
    /\ wform[2].fields = Email

\* C10 (as claimed): no operation ends with the connection it opened still
\* open.
C10_ConnectionsClosed == conn # "open" /\ initConn # "open"

====
